---------------------------- MODULE Spec2Model ----------------------------
(***************************************************************************)
(* A model of lalrpop-util's error layer (src/lalrpop-util/src/lib.rs):    *)
(* the ParseError<L, T, E> sum type, its three projections map_location,   *)
(* map_token and map_error (all built on map_intern), the Display          *)
(* rendering with its fmt_expected helper, and the ErrorRecovery envelope. *)
(*                                                                         *)
(* The type parameters are instantiated as in the crate's own test:        *)
(* L = i32, T = &str, E = &str.                                            *)
(***************************************************************************)
EXTENDS Integers, Sequences, FiniteSets, TLC

\* Locations are the i32 values 0..MaxLoc.
MaxLoc == 1

\* Expected lists have at most MaxExpected items.
MaxExpected == 3

Locations == 0..MaxLoc

\* Token and expected-token names of the crate's test, and one more token.
Tokens == {"t0", "x"}

UserErrors == {"e0", "e1"}

ExpectedNames == {"t1", "t2", "t3"}

(***************************************************************************)
(* The data model.                                                         *)
(***************************************************************************)

\* A span (start, value, end): the (L, T, L) triple of the token fields.
Span(s, t, e) == <<s, t, e>>

InvalidToken(location) == [tag |-> "InvalidToken", location |-> location]

UnrecognizedEOF(location, expected) ==
    [tag |-> "UnrecognizedEOF", location |-> location, expected |-> expected]

UnrecognizedToken(token, expected) ==
    [tag |-> "UnrecognizedToken", token |-> token, expected |-> expected]

ExtraToken(token) == [tag |-> "ExtraToken", token |-> token]

User(error) == [tag |-> "User", error |-> error]

\* The ErrorRecovery record.
ErrorRecovery(error, dropped) == [error |-> error, dropped_tokens |-> dropped]

(***************************************************************************)
(* The values the driving engine constructs.  The engine's contract is     *)
(* that a span it hands over has start <= end; nothing in lib.rs checks    *)
(* it.                                                                     *)
(***************************************************************************)

ExpectedLists == UNION {[1..n -> ExpectedNames] : n \in 0..MaxExpected}

\* The projections move an expected list without looking into it: the values
\* they are run on carry the empty list or the list of the crate's test.
MovedLists == {<<>>, <<"t1", "t2", "t3">>}

EngineSpans ==
    {sp \in Locations \X Tokens \X Locations : sp[1] <= sp[3]}

ErrorsOver(locs, spans, lists) ==
    {InvalidToken(l) : l \in locs}
    \cup {UnrecognizedEOF(l, x) : l \in locs, x \in lists}
    \cup {UnrecognizedToken(sp, x) : sp \in spans, x \in lists}
    \cup {ExtraToken(sp) : sp \in spans}
    \cup {User(u) : u \in UserErrors}

\* What the engine hands to the holder of the projections.
EngineErrors == ErrorsOver(Locations, EngineSpans, MovedLists)

\* Zero-token recovery, or one discarded token.
DroppedSeqs == {<<>>} \cup {<<sp>> : sp \in EngineSpans}

\* Rendering takes any value of the public type: i32 locations of either
\* sign and of more than one digit, spans of either orientation.
SampleLocs == Locations \cup {-1, 2, 3, 4, 10}

DisplayErrors ==
    ErrorsOver(SampleLocs, SampleLocs \X Tokens \X SampleLocs, ExpectedLists)

(***************************************************************************)
(* The functions handed to the projections: every total function on the    *)
(* axis.                                                                   *)
(***************************************************************************)

LocFns == [Locations -> Locations]
TokFns == [Tokens -> Tokens]
ErrFns == [UserErrors -> UserErrors]

\* The closure |x| x of map_location, map_token and map_error.
Identity(S) == [x \in S |-> x]

(***************************************************************************)
(* The projections.                                                        *)
(***************************************************************************)

\* Faulty variants of maptok: the end of the span left unmapped, taken from
\* the start, or exchanged with the start.
maptok_start_only(tok, loc_op, tok_op) ==
    <<loc_op[tok[1]], tok_op[tok[2]], tok[3]>>

maptok_end_from_start(tok, loc_op, tok_op) ==
    <<loc_op[tok[1]], tok_op[tok[2]], loc_op[tok[1]]>>

maptok_swapped(tok, loc_op, tok_op) ==
    <<loc_op[tok[3]], tok_op[tok[2]], loc_op[tok[1]]>>

\* let maptok = |(s, t, e)| (loc_op(s), tok_op(t), loc_op(e));
maptok(tok, loc_op, tok_op) == <<loc_op[tok[1]], tok_op[tok[2]], loc_op[tok[3]]>>

\* Faulty variants of map_intern: the ExtraToken arm building an
\* UnrecognizedToken, and the arms with an expected list building a new one.
map_intern_retag(self, loc_op, tok_op, err_op) ==
    CASE self.tag = "InvalidToken" ->
            [tag |-> "InvalidToken", location |-> loc_op[self.location]]
      [] self.tag = "UnrecognizedEOF" ->
            [tag |-> "UnrecognizedEOF", location |-> loc_op[self.location],
             expected |-> self.expected]
      [] self.tag \in {"UnrecognizedToken", "ExtraToken"} ->
            [tag |-> "UnrecognizedToken",
             token |-> <<loc_op[self.token[1]], tok_op[self.token[2]],
                         loc_op[self.token[3]]>>,
             expected |-> IF self.tag = "ExtraToken" THEN <<>> ELSE self.expected]
      [] self.tag = "User" ->
            [tag |-> "User", error |-> err_op[self.error]]

map_intern_drops_expected(self, loc_op, tok_op, err_op) ==
    CASE self.tag = "InvalidToken" ->
            [tag |-> "InvalidToken", location |-> loc_op[self.location]]
      [] self.tag = "UnrecognizedEOF" ->
            [tag |-> "UnrecognizedEOF", location |-> loc_op[self.location],
             expected |-> <<>>]
      [] self.tag = "UnrecognizedToken" ->
            [tag |-> "UnrecognizedToken",
             token |-> <<loc_op[self.token[1]], tok_op[self.token[2]],
                         loc_op[self.token[3]]>>,
             expected |-> <<>>]
      [] self.tag = "ExtraToken" ->
            [tag |-> "ExtraToken",
             token |-> <<loc_op[self.token[1]], tok_op[self.token[2]],
                         loc_op[self.token[3]]>>]
      [] self.tag = "User" ->
            [tag |-> "User", error |-> err_op[self.error]]

map_intern(self, loc_op, tok_op, err_op) ==
    CASE self.tag = "InvalidToken" ->
            [tag |-> "InvalidToken", location |-> loc_op[self.location]]
      [] self.tag = "UnrecognizedEOF" ->
            [tag |-> "UnrecognizedEOF", location |-> loc_op[self.location],
             expected |-> self.expected]
      [] self.tag = "UnrecognizedToken" ->
            [tag |-> "UnrecognizedToken",
             token |-> maptok(self.token, loc_op, tok_op),
             expected |-> self.expected]
      [] self.tag = "ExtraToken" ->
            [tag |-> "ExtraToken", token |-> maptok(self.token, loc_op, tok_op)]
      [] self.tag = "User" ->
            [tag |-> "User", error |-> err_op[self.error]]

map_location(self, op) ==
    map_intern(self, op, Identity(Tokens), Identity(UserErrors))

\* A faulty variant of map_token: the locations rebuilt as the default i32
\* instead of being passed through |x| x.
map_token_resets_location(self, op) ==
    map_intern(self, [x \in Locations |-> 0], op, Identity(UserErrors))

map_token(self, op) ==
    map_intern(self, Identity(Locations), op, Identity(UserErrors))

map_error(self, op) ==
    map_intern(self, Identity(Locations), Identity(Tokens), op)

(***************************************************************************)
(* Rendering.  The formatter's sink is the sequence of characters written  *)
(* so far; write! appends to it.  A character is a one-character string,   *)
(* except the grave accent, which a TLA+ string cannot hold.               *)
(***************************************************************************)

Backtick == "U+0060"

\* The characters of a string literal.
Str(s) == [i \in 1..Len(s) |-> SubSeq(s, i, i)]

Digit(d) == CASE d = 0 -> "0" [] d = 1 -> "1" [] d = 2 -> "2" [] d = 3 -> "3"
              [] d = 4 -> "4" [] d = 5 -> "5" [] d = 6 -> "6" [] d = 7 -> "7"
              [] d = 8 -> "8" [] d = 9 -> "9"

RECURSIVE DisplayNat(_)
DisplayNat(n) ==
    IF n < 10 THEN <<Digit(n)>> ELSE DisplayNat(n \div 10) \o <<Digit(n % 10)>>

\* "{}" of an i32: decimal, a leading '-' for a negative value.
DisplayLoc(l) == IF l < 0 THEN <<"-">> \o DisplayNat(0 - l) ELSE DisplayNat(l)

\* "{}" of a &str is the text itself.
DisplayTok(t) == Str(t)

DisplayErr(u) == Str(u)

\* Faulty variants of the separator match: the middle-item guard reaching the
\* last item, and the last-item arm tried before the first-item arm.
ExpectedSep_comma_last(i, n) ==
    IF i = 0 THEN Str("Expected one of")
    ELSE IF i < n THEN Str(",")
    ELSE Str(" or")

ExpectedSep_last_first(i, n) ==
    IF i >= n - 1 THEN Str(" or")
    ELSE IF i = 0 THEN Str("Expected one of")
    ELSE Str(",")

\* The separator fmt_expected's match picks for item i (0-based) of n.
ExpectedSep(i, n) ==
    IF i = 0 THEN Str("Expected one of")
    ELSE IF i < n - 1 THEN Str(",")
    ELSE Str(" or")

\* The for loop of fmt_expected from item i (0-based) on:
\* write!(f, "{} {}", sep, e) for each.
RECURSIVE ExpectedLoop(_, _, _)
ExpectedLoop(f, expected, i) ==
    IF i >= Len(expected) THEN f
    ELSE ExpectedLoop(f \o ExpectedSep(i, Len(expected)) \o Str(" ")
                        \o Str(expected[i + 1]),
                      expected, i + 1)

\* A faulty variant of fmt_expected: no is_empty test.
fmt_expected_always_newline(f, expected) ==
    ExpectedLoop(f \o Str("\n"), expected, 0)

fmt_expected(f, expected) ==
    IF expected # <<>> THEN ExpectedLoop(f \o Str("\n"), expected, 0) ELSE f

\* A faulty variant of fmt: ExtraToken written with UnrecognizedToken's
\* template.
fmt_extra_backticks(self) ==
    CASE self.tag = "User" -> DisplayErr(self.error)
      [] self.tag = "InvalidToken" ->
            Str("Invalid token at ") \o DisplayLoc(self.location)
      [] self.tag = "UnrecognizedEOF" ->
            fmt_expected(Str("Unrecognized EOF found at ")
                            \o DisplayLoc(self.location),
                         self.expected)
      [] self.tag \in {"UnrecognizedToken", "ExtraToken"} ->
            fmt_expected(Str("Unrecognized token ") \o <<Backtick>>
                            \o DisplayTok(self.token[2]) \o <<Backtick>>
                            \o Str(" found at ") \o DisplayLoc(self.token[1])
                            \o Str(":") \o DisplayLoc(self.token[3]),
                         IF self.tag = "ExtraToken" THEN <<>> ELSE self.expected)

fmt(self) ==
    CASE self.tag = "User" -> DisplayErr(self.error)
      [] self.tag = "InvalidToken" ->
            Str("Invalid token at ") \o DisplayLoc(self.location)
      [] self.tag = "UnrecognizedEOF" ->
            fmt_expected(Str("Unrecognized EOF found at ")
                            \o DisplayLoc(self.location),
                         self.expected)
      [] self.tag = "UnrecognizedToken" ->
            fmt_expected(Str("Unrecognized token ") \o <<Backtick>>
                            \o DisplayTok(self.token[2]) \o <<Backtick>>
                            \o Str(" found at ") \o DisplayLoc(self.token[1])
                            \o Str(":") \o DisplayLoc(self.token[3]),
                         self.expected)
      [] self.tag = "ExtraToken" ->
            Str("Extra token ") \o DisplayTok(self.token[2])
                \o Str(" found at ") \o DisplayLoc(self.token[1])
                \o Str(":") \o DisplayLoc(self.token[3])

(***************************************************************************)
(* The state machine: the engine constructs an error (and the envelope     *)
(* around it); its holder projects it, or renders it.                      *)
(***************************************************************************)

VARIABLES
    orig,       \* the ParseError as the engine constructed it
    recovery,   \* the ErrorRecovery envelope built around it
    err,        \* the ParseError the holder has now
    prev,       \* the ParseError the last projection consumed
    last,       \* the last call: its name and the closure it was given
    pipeline,   \* the calls of a pipeline of layers, in order
    out         \* what the formatter's sink holds after the last fmt

vars == <<orig, recovery, err, prev, last, pipeline, out>>

NoCall == [op |-> "new", fn |-> <<>>]

Call(op, fn) == [op |-> op, fn |-> fn]

\* The call's method applied to self.
Apply(self, call) ==
    CASE call.op = "map_location" -> map_location(self, call.fn)
      [] call.op = "map_token" -> map_token(self, call.fn)
      [] call.op = "map_error" -> map_error(self, call.fn)

InitWith(errors, droppeds) ==
    /\ orig \in errors
    /\ \E d \in droppeds : recovery = ErrorRecovery(orig, d)
    /\ err = orig
    /\ prev = orig
    /\ last = NoCall
    /\ pipeline = <<>>
    /\ out = <<>>

\* self.map_location(op) and its two siblings consume err and yield the new one.
Project(call) ==
    /\ err' = Apply(err, call)
    /\ prev' = err
    /\ last' = call
    /\ UNCHANGED <<orig, recovery, out>>

Init == InitWith(EngineErrors, DroppedSeqs)

MapLocation(f) == Project(Call("map_location", f)) /\ UNCHANGED pipeline

MapToken(g) == Project(Call("map_token", g)) /\ UNCHANGED pipeline

MapError(h) == Project(Call("map_error", h)) /\ UNCHANGED pipeline

Next ==
    \/ \E f \in LocFns : MapLocation(f)
    \/ \E g \in TokFns : MapToken(g)
    \/ \E h \in ErrFns : MapError(h)

\* Any number of projections, with any closures, in any order.
Spec == Init /\ [][Next]_vars

(***************************************************************************)
(* A pipeline of three layers, each re-expressing one axis of the error,   *)
(* in whatever order the layers come.                                      *)
(***************************************************************************)

Layered(op) == \E i \in 1..Len(pipeline) : pipeline[i].op = op

InitPipeline == InitWith(EngineErrors, {<<>>})

LayerLocation(f) ==
    /\ ~Layered("map_location")
    /\ Project(Call("map_location", f))
    /\ pipeline' = Append(pipeline, Call("map_location", f))

LayerToken(g) ==
    /\ ~Layered("map_token")
    /\ Project(Call("map_token", g))
    /\ pipeline' = Append(pipeline, Call("map_token", g))

LayerError(h) ==
    /\ ~Layered("map_error")
    /\ Project(Call("map_error", h))
    /\ pipeline' = Append(pipeline, Call("map_error", h))

NextPipeline ==
    \/ \E f \in LocFns : LayerLocation(f)
    \/ \E g \in TokFns : LayerToken(g)
    \/ \E h \in ErrFns : LayerError(h)

SpecPipeline == InitPipeline /\ [][NextPipeline]_vars

(***************************************************************************)
(* Rendering a value: format!("{}", err).                                  *)
(***************************************************************************)

InitDisplay == InitWith(DisplayErrors, {<<>>})

Display ==
    /\ out' = fmt(err)
    /\ last' = Call("fmt", <<>>)
    /\ UNCHANGED <<orig, recovery, err, prev, pipeline>>

SpecDisplay == InitDisplay /\ [][Display]_vars

(***************************************************************************)
(* Helpers of the properties.                                              *)
(***************************************************************************)

MapOps == {"map_location", "map_token", "map_error"}

\* The values of the axis a projection maps.
Axis(op) ==
    CASE op = "map_location" -> Locations
      [] op = "map_token" -> Tokens
      [] op = "map_error" -> UserErrors

HasLocation(e) == e.tag \in {"InvalidToken", "UnrecognizedEOF"}

HasToken(e) == e.tag \in {"UnrecognizedToken", "ExtraToken"}

HasExpected(e) == e.tag \in {"UnrecognizedEOF", "UnrecognizedToken"}

\* The calls of the pipeline made one after the other, in the order p.
RECURSIVE ApplyInOrder(_, _, _)
ApplyInOrder(e, calls, p) ==
    IF p = <<>> THEN e
    ELSE ApplyInOrder(Apply(e, calls[Head(p)]), calls, Tail(p))

Orders == {p \in [1..3 -> 1..3] : \A i, j \in 1..3 : p[i] = p[j] => i = j}

\* finv undoes f.
Undoes(finv, f) == \A x \in DOMAIN f : finv[f[x]] = x

Monotone(f) == \A x, y \in DOMAIN f : x <= y => f[x] <= f[y]

SpanOrdered(sp) == sp[1] <= sp[3]

(***************************************************************************)
(* C1. Projection independence: once a pipeline has applied one            *)
(* map_location, one map_token and one map_error, the value it holds is    *)
(* the value each of the six orders of those three calls yields from the   *)
(* constructed error.                                                      *)
(***************************************************************************)
C1_ProjectionIndependence ==
    Len(pipeline) = 3 =>
        \A p \in Orders : ApplyInOrder(orig, pipeline, p) = err

\* A token error through map_error, map_token, map_location in that order,
\* with closures that change both ends of the span and the token.
C1_Witness ==
    /\ Len(pipeline) = 3
    /\ pipeline[1].op = "map_error"
    /\ pipeline[2].op = "map_token"
    /\ orig.tag = "UnrecognizedToken"
    /\ err.token[1] # orig.token[1]
    /\ err.token[2] # orig.token[2]
    /\ err.token[3] # orig.token[3]

(***************************************************************************)
(* C2. Identity law: a projection called with the identity closure yields  *)
(* a value equal to the one it consumed.                                   *)
(***************************************************************************)
C2_IdentityLaw ==
    (last.op \in MapOps /\ last.fn = Identity(Axis(last.op))) => err = prev

C2_Witness ==
    /\ last.op = "map_location"
    /\ last.fn = Identity(Locations)
    /\ err.tag = "UnrecognizedToken"
    /\ err.token[1] # err.token[3]
    /\ err.expected # <<>>

(***************************************************************************)
(* C3. Variant-tag invariance: after any sequence of projections the value *)
(* has the variant of the constructed error, and every projection can      *)
(* still be called on it.                                                  *)
(***************************************************************************)
C3_TagInvariance ==
    /\ err.tag = orig.tag
    /\ ENABLED (\E f \in LocFns : MapLocation(f))
    /\ ENABLED (\E g \in TokFns : MapToken(g))
    /\ ENABLED (\E h \in ErrFns : MapError(h))

C3_Witness ==
    /\ last.op = "map_error"
    /\ orig.tag = "User"
    /\ err # orig
    /\ prev # orig

(***************************************************************************)
(* C4. Single-axis effect: map_location(f) replaces every location (both   *)
(* ends of a span) by its image under f and leaves token, user error and   *)
(* expected list alone; map_token(g) replaces only the token of a span;    *)
(* map_error(h) replaces only the user error.  A variant without a field   *)
(* of the mapped axis comes out equal to what went in.                     *)
(***************************************************************************)
C4_LocationEffect ==
    /\ err.tag = prev.tag
    /\ HasLocation(prev) => err.location = last.fn[prev.location]
    /\ HasToken(prev) =>
          /\ err.token[1] = last.fn[prev.token[1]]
          /\ err.token[2] = prev.token[2]
          /\ err.token[3] = last.fn[prev.token[3]]
    /\ HasExpected(prev) => err.expected = prev.expected
    /\ prev.tag = "User" => err = prev

C4_TokenEffect ==
    /\ err.tag = prev.tag
    /\ HasToken(prev) =>
          /\ err.token[1] = prev.token[1]
          /\ err.token[2] = last.fn[prev.token[2]]
          /\ err.token[3] = prev.token[3]
    /\ HasExpected(prev) => err.expected = prev.expected
    /\ ~HasToken(prev) => err = prev

C4_ErrorEffect ==
    /\ err.tag = prev.tag
    /\ prev.tag = "User" => err.error = last.fn[prev.error]
    /\ prev.tag # "User" => err = prev

C4_SingleAxisEffect ==
    /\ last.op = "map_location" => C4_LocationEffect
    /\ last.op = "map_token" => C4_TokenEffect
    /\ last.op = "map_error" => C4_ErrorEffect

\* map_location moving both ends of a span that has an expected list.
C4_Witness ==
    /\ last.op = "map_location"
    /\ prev.tag = "UnrecognizedToken"
    /\ prev.expected # <<>>
    /\ err.token[1] # prev.token[1]
    /\ err.token[3] # prev.token[3]

(***************************************************************************)
(* C9. Round trip: a projection with a closure that undoes the closure of  *)
(* the projection before it, on the same axis, yields the value the first  *)
(* of the two consumed.                                                    *)
(***************************************************************************)
C9_RoundTrip ==
    [][(/\ last.op \in MapOps
        /\ last'.op = last.op
        /\ prev' = err
        /\ Undoes(last'.fn, last.fn)) => err' = prev]_vars

\* The state after map_location(f) and map_location(f_inv) on a constructed
\* token error, f moving both ends of the span.
C9_Witness ==
    /\ last.op = "map_location"
    /\ orig.tag = "UnrecognizedToken"
    /\ err = orig
    /\ \E f \in LocFns :
          /\ Undoes(last.fn, f)
          /\ prev = map_location(orig, f)
          /\ prev.token[1] # orig.token[1]
          /\ prev.token[3] # orig.token[3]

(***************************************************************************)
(* C10. Span ordering, as claimed: the span of the value and every         *)
(* dropped token always has start <= end.                                  *)
(***************************************************************************)
C10_SpanOrdering ==
    /\ HasToken(err) => SpanOrdered(err.token)
    /\ \A i \in 1..Len(recovery.dropped_tokens) :
          SpanOrdered(recovery.dropped_tokens[i])

(***************************************************************************)
(* C10, amended. A projection of a value whose span has start <= end       *)
(* yields a span with start <= end when it is map_token, map_error, or     *)
(* map_location with an order-preserving closure; no projection touches    *)
(* the envelope, whose dropped tokens stay as the engine ordered them.     *)
(***************************************************************************)
C10_OrderPreserved ==
    /\ (/\ last.op \in MapOps
        /\ HasToken(prev)
        /\ SpanOrdered(prev.token)
        /\ last.op = "map_location" => Monotone(last.fn))
       => SpanOrdered(err.token)
    /\ recovery.error = orig
    /\ \A i \in 1..Len(recovery.dropped_tokens) :
          SpanOrdered(recovery.dropped_tokens[i])

\* An order-preserving map_location that moves a span with start < end,
\* beside an envelope that holds a dropped token.
C10_Witness ==
    /\ last.op = "map_location"
    /\ Monotone(last.fn)
    /\ last.fn # Identity(Locations)
    /\ HasToken(prev)
    /\ prev.token[1] < prev.token[3]
    /\ err # prev
    /\ recovery.dropped_tokens # <<>>

(***************************************************************************)
(* Helpers of the rendering properties: the header line of the two         *)
(* variants with an expected list, and the text of the middle items.       *)
(***************************************************************************)

Rendered == last.op = "fmt"

Header(e) ==
    IF e.tag = "UnrecognizedEOF"
    THEN Str("Unrecognized EOF found at ") \o DisplayLoc(e.location)
    ELSE Str("Unrecognized token ") \o <<Backtick>> \o Str(e.token[2])
            \o <<Backtick>> \o Str(" found at ") \o DisplayLoc(e.token[1])
            \o Str(":") \o DisplayLoc(e.token[3])

\* ", ei" for each item from the i-th up to the one before the last.
RECURSIVE Middle(_, _)
Middle(expected, i) ==
    IF i >= Len(expected) THEN <<>>
    ELSE Str(", ") \o Str(expected[i]) \o Middle(expected, i + 1)

\* sub occurs in text.
Contains(text, sub) ==
    \E i \in 0..(Len(text) - Len(sub)) : SubSeq(text, i + 1, i + Len(sub)) = sub

(***************************************************************************)
(* C5. An expected list e1..en of two or more items renders as the header, *)
(* a newline, "Expected one of e1", ", ei" for each middle item in order   *)
(* and " or en", with nothing after it; the value of the crate's test      *)
(* renders as the test says.                                               *)
(***************************************************************************)
C5_ExpectedClause ==
    /\ (Rendered /\ HasExpected(err) /\ Len(err.expected) >= 2) =>
          out = Header(err) \o Str("\n") \o Str("Expected one of ")
                   \o Str(err.expected[1]) \o Middle(err.expected, 2)
                   \o Str(" or ") \o Str(err.expected[Len(err.expected)])
    /\ (Rendered /\ err = UnrecognizedToken(<<1, "t0", 2>>, <<"t1", "t2", "t3">>)) =>
          out = Str("Unrecognized token ") \o <<Backtick>> \o Str("t0")
                   \o <<Backtick>> \o Str(" found at 1:2")
                   \o Str("\nExpected one of t1, t2 or t3")

C5_Witness ==
    /\ Rendered
    /\ err = UnrecognizedToken(<<1, "t0", 2>>, <<"t1", "t2", "t3">>)
    /\ Len(out) > 0

(***************************************************************************)
(* C6. An expected list of exactly one item a renders as the header, a     *)
(* newline and "Expected one of a"; " or" is not written.                  *)
(***************************************************************************)
C6_SingleItem ==
    (Rendered /\ HasExpected(err) /\ Len(err.expected) = 1) =>
        /\ out = Header(err) \o Str("\n") \o Str("Expected one of ")
                    \o Str(err.expected[1])
        /\ ~Contains(out, Str(" or"))

C6_Witness ==
    /\ Rendered
    /\ err.tag = "UnrecognizedEOF"
    /\ Len(err.expected) = 1
    /\ Contains(out, Str("Expected one of t2"))

(***************************************************************************)
(* C7. An empty expected list renders as the header alone: no newline and  *)
(* no expected clause follow it.                                           *)
(***************************************************************************)
C7_EmptyList ==
    (Rendered /\ HasExpected(err) /\ err.expected = <<>>) =>
        /\ out = Header(err)
        /\ ~Contains(out, Str("\n"))
        /\ ~Contains(out, Str("Expected"))

C7_Witness ==
    /\ Rendered
    /\ err.tag = "UnrecognizedEOF"
    /\ err.expected = <<>>
    /\ out = Str("Unrecognized EOF found at 10")

(***************************************************************************)
(* C8. The variants without an expected list render by fixed templates:    *)
(* User as the user error's own text, InvalidToken as "Invalid token at    *)
(* <location>", ExtraToken as "Extra token <token> found at <start>:<end>" *)
(* with no backticks; none of them renders an expected clause.             *)
(***************************************************************************)
C8_FixedTemplates ==
    /\ (Rendered /\ err.tag = "User") => out = Str(err.error)
    /\ (Rendered /\ err.tag = "InvalidToken") =>
          out = Str("Invalid token at ") \o DisplayLoc(err.location)
    /\ (Rendered /\ err.tag = "ExtraToken") =>
          out = Str("Extra token ") \o Str(err.token[2]) \o Str(" found at ")
                   \o DisplayLoc(err.token[1]) \o Str(":")
                   \o DisplayLoc(err.token[3])
    /\ (Rendered /\ err = ExtraToken(<<3, "x", 4>>)) =>
          out = Str("Extra token x found at 3:4")
    /\ (Rendered /\ ~HasExpected(err)) =>
          /\ ~Contains(out, Str("Expected one of"))
          /\ ~Contains(out, Str("\n"))
          /\ ~Contains(out, <<Backtick>>)

C8_Witness ==
    /\ Rendered
    /\ err = ExtraToken(<<3, "x", 4>>)
    /\ Len(out) = 26

=============================================================================
